---- MODULE Spec2Model ----
(***************************************************************************)
(* Verification model of the linear-algebra kernel of OlgaKush512/matrix:  *)
(* the Matrix/Vector containers, rowEchelon, rank, rankByPivots,           *)
(* determinant, determinantRecursive, inverse, transpose and mulMat.       *)
(*                                                                         *)
(* Scalars.  The kernel computes on JavaScript numbers, i.e. IEEE-754      *)
(* binary64 with round-to-nearest-even.  A number is modelled bit for bit  *)
(* as <<s, e, h, l>>: sign s in {-1, 0, 1}, and for s # 0 the 53-bit       *)
(* significand m = h * 2^27 + l (2^52 <= m < 2^53) with value s * m * 2^e. *)
(* Zero is <<0, 0, 0, 0>>; the sign of a zero is not kept (JavaScript's    *)
(* === and < do not see it, and the kernel never divides by a zero).       *)
(* The inputs of the model stay far inside the normal range, so overflow   *)
(* to Infinity, subnormals and NaN never arise and are not modelled.       *)
(***************************************************************************)
EXTENDS Integers, Sequences, FiniteSets, Bags, TLC

\* ---------------------------------------------------------------- words
\* Multi-word naturals, little-endian sequences of 27-bit words.
W == 2^27
P2 == [k \in 0..30 |-> 2^k]

Wd(N, i) == IF i >= 1 /\ i <= Len(N) THEN N[i] ELSE 0

\* word i of N * 2^(27*ws + bs)
ShlWord(N, ws, bs, i) ==
    ((Wd(N, i - ws) % P2[27 - bs]) * P2[bs]) + (Wd(N, i - ws - 1) \div P2[27 - bs])

\* word i of N \div 2^(27*ws + bs)
ShrWord(N, ws, bs, i) ==
    (Wd(N, i + ws) \div P2[bs]) + ((Wd(N, i + ws + 1) % P2[bs]) * P2[27 - bs])

\* whether N has a non-zero bit below bit 27*ws + bs
StickyBelow(N, ws, bs) ==
    \/ Wd(N, ws + 1) % P2[bs] # 0
    \/ \E i \in 1..ws : Wd(N, i) # 0

RECURSIVE BitLenW(_)
BitLenW(x) == IF x = 0 THEN 0 ELSE 1 + BitLenW(x \div 2)

RECURSIVE TopWord(_, _)
TopWord(N, i) == IF i = 0 THEN 0 ELSE IF N[i] # 0 THEN i ELSE TopWord(N, i - 1)

BitLenAt(N, t) == IF t = 0 THEN 0 ELSE 27 * (t - 1) + BitLenW(N[t])

BitLen(N) == BitLenAt(N, TopWord(N, Len(N)))

\* the product of two 27-bit words as <<high word, low word>>, from the
\* products of their 13- and 14-bit halves
WordMulCarry(hi, mid, low) == <<(2 * hi) + (mid \div P2[13]) + (low \div W), low % W>>

WordMulSum(hi, mid, lo) == WordMulCarry(hi, mid, ((mid % P2[13]) * P2[14]) + lo)

WordMulParts(x1, x0, y1, y0) == WordMulSum(x1 * y1, (x1 * y0) + (x0 * y1), x0 * y0)

WordMul(x, y) == WordMulParts(x \div P2[14], x % P2[14], y \div P2[14], y % P2[14])

\* ------------------------------------------------------- binary64 numbers
Zero == <<0, 0, 0, 0>>

\* the 53-bit <<qh, ql>> plus one when the bit cut off below it is set and
\* either a lower bit is (sticky) or ql is odd: round to nearest, ties to even
RoundInc(s, e, qh, ql, half, sticky) ==
    IF ~(half /\ (sticky \/ ql % 2 = 1)) THEN <<s, e, qh, ql>>
    ELSE IF ql + 1 < W THEN <<s, e, qh, ql + 1>>
    ELSE IF qh + 1 < P2[26] THEN <<s, e, qh + 1, 0>>
    ELSE <<s, e + 1, P2[25], 0>>

\* <<h2, l2>> holds 54 bits: the significand and the bit below it
RoundTie(s, e, h2, l2, sticky) ==
    RoundInc(s, e, h2 \div 2, ((h2 % 2) * P2[26]) + (l2 \div 2), l2 % 2 = 1, sticky)

\* s * N * 2^e for N of L bits
RoundLen(s, N, e, L) ==
    IF L = 0 THEN Zero
    ELSE IF L <= 53
    THEN <<s, e - (53 - L),
           ShlWord(N, (53 - L) \div 27, (53 - L) % 27, 2),
           ShlWord(N, (53 - L) \div 27, (53 - L) % 27, 1)>>
    ELSE RoundTie(s, e + (L - 54) + 1,
                  ShrWord(N, (L - 54) \div 27, (L - 54) % 27, 2),
                  ShrWord(N, (L - 54) \div 27, (L - 54) % 27, 1),
                  StickyBelow(N, (L - 54) \div 27, (L - 54) % 27))

\* s * N * 2^e rounded to the nearest binary64, ties to even
RoundBig(s, N, e) == RoundLen(s, N, e, BitLen(N))

FromInt(k) == RoundBig(IF k < 0 THEN -1 ELSE 1, <<IF k < 0 THEN -k ELSE k>>, 0)

DNeg(a) == <<-a[1], a[2], a[3], a[4]>>

\* |a| < |b|
MagLt(a, b) ==
    IF b[1] = 0 THEN FALSE
    ELSE IF a[1] = 0 THEN TRUE
    ELSE IF a[2] # b[2] THEN a[2] < b[2]
    ELSE IF a[3] # b[3] THEN a[3] < b[3]
    ELSE a[4] < b[4]

\* a < b
DLt(a, b) ==
    IF a[1] # b[1] THEN a[1] < b[1]
    ELSE IF a[1] = 1 THEN MagLt(a, b)
    ELSE IF a[1] = -1 THEN MagLt(b, a)
    ELSE FALSE

DGt(a, b) == DLt(b, a)

\* the four partial products summed into a four-word natural, then rounded
MulCarry(s, e, top, w0, t1, t2) ==
    RoundBig(s, <<w0, t1 % W, (t2 + (t1 \div W)) % W, top + ((t2 + (t1 \div W)) \div W)>>, e)

MulSum(s, e, hh, hl, lh, ll) ==
    MulCarry(s, e, hh[1], ll[2], ll[1] + hl[2] + lh[2], hl[1] + lh[1] + hh[2])

\* a * b
DMul(a, b) ==
    IF a[1] = 0 \/ b[1] = 0 THEN Zero
    ELSE MulSum(a[1] * b[1], a[2] + b[2],
                WordMul(a[3], b[3]), WordMul(a[3], b[4]),
                WordMul(a[4], b[3]), WordMul(a[4], b[4]))

\* x + y and x - y (x >= y) on four-word naturals
\* the carry out of word i of x + y
RECURSIVE Carry(_, _, _)
Carry(x, y, i) == IF i = 0 THEN 0 ELSE (x[i] + y[i] + Carry(x, y, i - 1)) \div W

AddW(x, y) ==
    [i \in 1..4 |-> IF i < 4 THEN (x[i] + y[i] + Carry(x, y, i - 1)) % W
                    ELSE x[i] + y[i] + Carry(x, y, i - 1)]

\* 1 when word i of x - y borrows from word i + 1
RECURSIVE Borrow(_, _, _)
Borrow(x, y, i) ==
    IF i = 0 THEN 0 ELSE IF x[i] - y[i] - Borrow(x, y, i - 1) < 0 THEN 1 ELSE 0

SubW(x, y) ==
    [i \in 1..4 |-> x[i] - y[i] - Borrow(x, y, i - 1)
                    + (IF i < 4 THEN Borrow(x, y, i) * W ELSE 0)]

LtW(x, y) ==
    IF x[4] # y[4] THEN x[4] < y[4]
    ELSE IF x[3] # y[3] THEN x[3] < y[3]
    ELSE IF x[2] # y[2] THEN x[2] < y[2]
    ELSE x[1] < y[1]

\* the sign and magnitude of sa * Na + sb * Nb (sa, sb non-zero)
SignedSum(sa, sb, Na, Nb) ==
    IF sa = sb THEN <<sa, AddW(Na, Nb)>>
    ELSE IF LtW(Na, Nb) THEN <<sb, SubW(Nb, Na)>>
    ELSE <<sa, SubW(Na, Nb)>>

RoundSigned(x, e) == RoundBig(x[1], x[2], e)

\* the two-word m times 2^(27*ws + bs) as a four-word natural
Shifted(m, ws, bs) ==
    <<ShlWord(m, ws, bs, 1), ShlWord(m, ws, bs, 2), ShlWord(m, ws, bs, 3), ShlWord(m, ws, bs, 4)>>

\* a + b, where a has the larger (or the same) exponent: b is below half an
\* ulp of a when the exponents are 55 or more apart
AddAligned(a, b) ==
    IF a[2] - b[2] >= 55 THEN a
    ELSE RoundSigned(SignedSum(a[1], b[1],
                               Shifted(<<a[4], a[3]>>, (a[2] - b[2]) \div 27, (a[2] - b[2]) % 27),
                               <<b[4], b[3], 0, 0>>),
                     b[2])

\* a + b
DAdd(a, b) ==
    IF a[1] = 0 THEN b
    ELSE IF b[1] = 0 THEN a
    ELSE AddAligned(IF a[2] >= b[2] THEN a ELSE b, IF a[2] >= b[2] THEN b ELSE a)

\* a - b
DSub(a, b) == DAdd(a, DNeg(b))

\* Long division by d = <<dh, dl>> (2^52 <= d < 2^53) in base 2^14.  For a
\* remainder r = <<rh, rl>> < d, an estimate of the digit (r * 2^14) \div d
\* from the leading bits: never too large, at most 2 too small.
DivEst(r, dh) == ((8 * r[1]) + (r[2] \div P2[24])) \div ((dh \div P2[11]) + 1)

\* r * 2^14 - est * d as <<high, low>>, given pl = est * dl and ph = est * dh
DivRem(r, pl, ph) ==
    LET m == <<r[2], r[1]>>
        t == pl[1] + ph[2]
        y0 == ShlWord(m, 0, 14, 1) - pl[2]
        bw == IF y0 < 0 THEN 1 ELSE 0
    IN  <<(ShlWord(m, 0, 14, 2) - (t % W) - bw)
             + ((ShlWord(m, 0, 14, 3) - ph[1] - (t \div W)) * W),
          y0 + (bw * W)>>

\* y - c on <<high, low>> pairs
SubPair(y, ch, cl) ==
    IF y[2] < cl THEN <<y[1] - ch - 1, y[2] - cl + W>> ELSE <<y[1] - ch, y[2] - cl>>

\* the digit and the remainder <<digit, rh', rl'>> from the estimate and y
DivFix(est, y, dh, dl, d2h, d2l) ==
    IF y[1] > d2h \/ (y[1] = d2h /\ y[2] >= d2l)
    THEN <<est + 2>> \o SubPair(y, d2h, d2l)
    ELSE IF y[1] > dh \/ (y[1] = dh /\ y[2] >= dl)
    THEN <<est + 1>> \o SubPair(y, dh, dl)
    ELSE <<est>> \o y

DivStepWith(r, est, dh, dl) ==
    DivFix(est, DivRem(r, WordMul(est, dl), WordMul(est, dh)), dh, dl,
           (2 * dh) + ((2 * dl) \div W), (2 * dl) % W)

\* one step: the digit (r * 2^14) \div d and the new remainder
DivStep(r, dh, dl) == DivStepWith(r, DivEst(r, dh), dh, dl)

\* after the step s = <<digit, rh, rl>>, k more steps: the digits from s on,
\* then 1 if a remainder is left, else 0
RECURSIVE DivDigits(_, _, _, _)
DivDigits(k, s, dh, dl) ==
    IF k = 0 THEN <<s[1], IF s[2] # 0 \/ s[3] # 0 THEN 1 ELSE 0>>
    ELSE <<s[1]>> \o DivDigits(k - 1, DivStep(<<s[2], s[3]>>, dh, dl), dh, dl)

\* the leading bit lead and the four digits and sticky bit of q, rounded
DivRound(sgn, lead, q, e) ==
    RoundBig(sgn,
             <<((q[3] % P2[12]) * P2[15]) + (2 * q[4]) + q[5],
               (q[3] \div P2[12]) + (4 * q[2]) + ((q[1] % P2[11]) * P2[16]),
               (q[1] \div P2[11]) + (8 * lead)>>,
             e)

\* a / b (b is never zero where the kernel divides): the quotient of the
\* significands to 57 bits, a sticky bit for the remainder, then rounded once
DDiv(a, b) ==
    IF a[1] = 0 THEN Zero
    ELSE IF a[3] > b[3] \/ (a[3] = b[3] /\ a[4] >= b[4])
    THEN DivRound(a[1] * b[1], 1,
                  Tail(DivDigits(4, <<0>> \o SubPair(<<a[3], a[4]>>, b[3], b[4]), b[3], b[4])),
                  a[2] - b[2] - 57)
    ELSE DivRound(a[1] * b[1], 0,
                  Tail(DivDigits(4, <<0, a[3], a[4]>>, b[3], b[4])),
                  a[2] - b[2] - 57)

One == FromInt(1)

\* the literal 1e-10 (0x1.b7cdfd9d7bdbbp-34), the kernel's pivot tolerance
Tol == <<1, -86, 57646075, 30916027>>

\* x < 0 ? -x : x
abs(x) == IF DLt(x, Zero) THEN DNeg(x) ELSE x

\* ------------------------------------------------------ Matrix container
\* The heap is a sequence of row arrays; an address is an index into it.  A
\* Matrix object is [data, rows, cols] with data a sequence of row addresses.
\* An optional constructor argument is <<>> (undefined) or <<k>>.
Undefined == <<>>

\* x || y for an optional number x
OrElse(x, y) == IF x = Undefined THEN y ELSE IF x[1] = 0 THEN y ELSE x[1]

\* the same row arrays under the same addresses: no copy at all
aliasRows(h, addrs) == [heap |-> h, data |-> addrs]

\* data.map(row => [...row]): fresh row arrays holding the same numbers
CopyRows(h, addrs) ==
    [heap |-> h \o [i \in 1..Len(addrs) |-> h[addrs[i]]],
     data |-> [i \in 1..Len(addrs) |-> Len(h) + i]]

\* new Matrix(data, rows, cols)
MatrixNew(h, addrs, rowsArg, colsArg) ==
    LET c == CopyRows(h, addrs)
    IN  [heap |-> c.heap,
         m |-> [data |-> c.data,
                rows |-> OrElse(rowsArg, Len(addrs)),
                cols |-> OrElse(colsArg, IF Len(addrs) > 0 THEN Len(h[addrs[1]]) ELSE 0)]]

\* a literal number[][] placed on the heap
Literal(h, rowsData) ==
    [heap |-> h \o rowsData, data |-> [i \in 1..Len(rowsData) |-> Len(h) + i]]

\* the numbers of the rows at addrs
Content(h, addrs) == [i \in 1..Len(addrs) |-> h[addrs[i]]]

\* the heap after the rows at addrs are overwritten with rowsData
Store(h, addrs, rowsData) ==
    [a \in 1..Len(h) |->
        IF \E k \in 1..Len(addrs) : addrs[k] = a
        THEN rowsData[CHOOSE k \in 1..Len(addrs) : addrs[k] = a]
        ELSE h[a]]

\* rows <= cols: a wide matrix passes for a square one
isWide(m) == m.rows <= m.cols

isSquare(m) == m.rows = m.cols

\* [data[i], data[j]] = [data[j], data[i]] (0-based i, j)
SwapRows(seq, i, j) == [seq EXCEPT ![i + 1] = seq[j + 1], ![j + 1] = seq[i + 1]]

\* ------------------------------------------------- elimination kernels
\* Each kernel's loop body is an operator on a frame f of its local variables:
\* data (the numbers of the working rows), addr (their addresses) and the
\* loop counters, 0-based as in the source.  A loop body is split where the
\* source computes a value it then uses more than once.

RECURSIVE findMaxLoop(_, _, _, _)
findMaxLoop(arr, i, maxIndex, maxValue) ==
    IF i >= Len(arr) THEN maxIndex
    ELSE IF DGt(abs(arr[i + 1]), maxValue)
    THEN findMaxLoop(arr, i + 1, i, abs(arr[i + 1]))
    ELSE findMaxLoop(arr, i + 1, maxIndex, maxValue)

\* the last index, whatever the values
findLastIndex(arr, start) == Len(arr) - 1

findMaxIndex(arr, start) == findMaxLoop(arr, start + 1, start, abs(arr[start + 1]))

\* if (i !== j) swap rows i and j
swapIf(seq, i, j) == IF i # j THEN SwapRows(seq, i, j) ELSE seq

\* the pivot row left as it is
unnormalized(row, pivotElement, from, to) == row

\* row[j] /= pivotElement for j = from..to-1
normalized(row, pivotElement, from, to) ==
    [j \in 1..Len(row) |->
        IF j - 1 >= from /\ j - 1 < to THEN DDiv(row[j], pivotElement) ELSE row[j]]

\* row[j] -= factor * prow[j] for j = from..to-1
reduced(row, factor, prow, from, to) ==
    [j \in 1..Len(row) |->
        IF j - 1 >= from /\ j - 1 < to THEN DSub(row[j], DMul(factor, prow[j])) ELSE row[j]]

\* "eliminate other rows": row `top` becomes prow, and every other row i of
\* the first nrows has d[i][col] * prow subtracted in columns from..to-1
eliminateOthers(d, top, nrows, prow, col, from, to) ==
    [i \in 1..Len(d) |->
        IF i - 1 = top THEN prow
        ELSE IF i - 1 < nrows THEN reduced(d[i], d[i][col + 1], prow, from, to)
        ELSE d[i]]

\* rowEchelon's loop body after the swap: normalize the pivot row, eliminate
rowEchelonEliminate(f, sw, swa) ==
    [f EXCEPT !.data = eliminateOthers(sw, f.pivotRow, f.rows,
                                       normalized(sw[f.pivotRow + 1],
                                                  sw[f.pivotRow + 1][f.pivotCol + 1],
                                                  f.pivotCol, f.cols),
                                       f.pivotCol, f.pivotCol, f.cols),
              !.addr = swa,
              !.pivotRow = f.pivotRow + 1,
              !.pivotCol = f.pivotCol + 1]

\* a column is skipped only when its largest entry is exactly zero
rowEchelonPivotExact(f, maxRow) ==
    IF f.data[maxRow + 1][f.pivotCol + 1] = Zero
    THEN [f EXCEPT !.pivotCol = f.pivotCol + 1]
    ELSE rowEchelonEliminate(f, swapIf(f.data, f.pivotRow, maxRow),
                                swapIf(f.addr, f.pivotRow, maxRow))

\* a skipped column uses up a row as well
rowEchelonPivotBoth(f, maxRow) ==
    IF DLt(abs(f.data[maxRow + 1][f.pivotCol + 1]), Tol)
    THEN [f EXCEPT !.pivotCol = f.pivotCol + 1, !.pivotRow = f.pivotRow + 1]
    ELSE rowEchelonEliminate(f, swapIf(f.data, f.pivotRow, maxRow),
                                swapIf(f.addr, f.pivotRow, maxRow))

\* rowEchelon's loop body once maxRow is known
rowEchelonPivot(f, maxRow) ==
    IF DLt(abs(f.data[maxRow + 1][f.pivotCol + 1]), Tol)
    THEN [f EXCEPT !.pivotCol = f.pivotCol + 1]
    ELSE rowEchelonEliminate(f, swapIf(f.data, f.pivotRow, maxRow),
                                swapIf(f.addr, f.pivotRow, maxRow))

\* one iteration of rowEchelon's while loop
rowEchelonStep(f) ==
    rowEchelonPivot(f, f.pivotRow
                       + findMaxIndex([i \in 1..(f.rows - f.pivotRow) |->
                                          f.data[f.pivotRow + i][f.pivotCol + 1]], 0))

\* the number of entries, not rows, whose magnitude exceeds 1e-10
entryCount(d, rows, cols) ==
    Cardinality({ij \in (0..(rows - 1)) \X (0..(cols - 1)) :
                    DGt(abs(d[ij[1] + 1][ij[2] + 1]), Tol)})

\* the number of rows with an entry that is not exactly 0
rankCountNonZero(d, rows, cols) ==
    Cardinality({i \in 0..(rows - 1) : \E j \in 0..(cols - 1) : d[i + 1][j + 1] # Zero})

\* rank's loop over the rows of ref: the number of rows with an entry whose
\* magnitude exceeds 1e-10
rankCount(d, rows, cols) ==
    Cardinality({i \in 0..(rows - 1) :
                    \E j \in 0..(cols - 1) : DGt(abs(d[i + 1][j + 1]), Tol)})

\* the last row whose magnitude exceeds 1e-10, not the largest
RECURSIVE pivotSearchLast(_, _, _, _, _)
pivotSearchLast(d, col, row, n, acc) ==
    IF row >= n THEN acc
    ELSE IF DGt(abs(d[row + 1][col + 1]), Tol)
    THEN pivotSearchLast(d, col, row + 1, n, <<row, abs(d[row + 1][col + 1])>>)
    ELSE pivotSearchLast(d, col, row + 1, n, acc)

\* the pivot search of rankByPivots, determinant and inverse: from
\* <<pivotRow, maxVal>> = acc, rows row..n-1 of column col
RECURSIVE pivotSearch(_, _, _, _, _)
pivotSearch(d, col, row, n, acc) ==
    IF row >= n THEN acc
    ELSE IF DGt(abs(d[row + 1][col + 1]), acc[2])
    THEN pivotSearch(d, col, row + 1, n, <<row, abs(d[row + 1][col + 1])>>)
    ELSE pivotSearch(d, col, row + 1, n, acc)

\* "eliminate below": each row i below `top` has (d[i][col] / d[top][col])
\* times row `top` subtracted in columns col..width-1
eliminateBelow(d, top, col, nrows, width) ==
    [i \in 1..Len(d) |->
        IF i - 1 > top /\ i - 1 < nrows
        THEN reduced(d[i], DDiv(d[i][col + 1], d[top + 1][col + 1]), d[top + 1], col, width)
        ELSE d[i]]

\* a skipped column stays on the same row and the same column
rankByPivotsPivotStay(f, p) ==
    IF DGt(p[2], Tol)
    THEN [f EXCEPT !.data = eliminateBelow(swapIf(f.data, f.pivotRow, p[1]),
                                           f.pivotRow, f.pivotCol, f.rows, f.cols),
                   !.addr = swapIf(f.addr, f.pivotRow, p[1]),
                   !.rank = f.rank + 1,
                   !.pivotCol = f.pivotCol + 1,
                   !.pivotRow = f.pivotRow + 1]
    ELSE [f EXCEPT !.pivotRow = (f.pivotRow - 1) + 1]

\* rankByPivots' loop body once p = <<maxRow, maxVal>> is known, its
\* pivotRow++ included
rankByPivotsPivot(f, p) ==
    IF DGt(p[2], Tol)
    THEN [f EXCEPT !.data = eliminateBelow(swapIf(f.data, f.pivotRow, p[1]),
                                           f.pivotRow, f.pivotCol, f.rows, f.cols),
                   !.addr = swapIf(f.addr, f.pivotRow, p[1]),
                   !.rank = f.rank + 1,
                   !.pivotCol = f.pivotCol + 1,
                   !.pivotRow = f.pivotRow + 1]
    ELSE [f EXCEPT !.pivotCol = f.pivotCol + 1,
                   !.pivotRow = (f.pivotRow - 1) + 1]

\* one iteration of rankByPivots' for loop
rankByPivotsStep(f) ==
    rankByPivotsPivot(f, pivotSearch(f.data, f.pivotCol, f.pivotRow, f.rows,
                                     <<f.pivotRow, Zero>>))

\* the sign kept at a row swap
PlusOne == FromInt(1)

MinusOne == FromInt(-1)

\* the sign flipped at every step, swap or not
determinantEliminateFlip(f, pivotRow, sw) ==
    [f EXCEPT !.data = eliminateBelow(sw, f.col, f.col, f.n, f.n),
              !.addr = swapIf(f.addr, f.col, pivotRow),
              !.sign = DMul(f.sign, MinusOne),
              !.det = DMul(f.det, sw[f.col + 1][f.col + 1]),
              !.col = f.col + 1]

\* determinant's loop body after the swap
determinantEliminate(f, pivotRow, sw) ==
    [f EXCEPT !.data = eliminateBelow(sw, f.col, f.col, f.n, f.n),
              !.addr = swapIf(f.addr, f.col, pivotRow),
              !.sign = IF pivotRow # f.col THEN DMul(f.sign, MinusOne) ELSE f.sign,
              !.det = DMul(f.det, sw[f.col + 1][f.col + 1]),
              !.col = f.col + 1]

\* determinant's loop body once p = <<pivotRow, maxVal>> is known;
\* ret = <<0>> is the early return 0
determinantPivot(f, p) ==
    IF DLt(p[2], Tol)
    THEN [f EXCEPT !.ret = <<Zero>>]
    ELSE determinantEliminate(f, p[1], swapIf(f.data, f.col, p[1]))

\* one iteration of determinant's for loop
determinantStep(f) ==
    determinantPivot(f, pivotSearch(f.data, f.col, f.col, f.n, <<f.col, Zero>>))

\* inverse's loop body after the swap: normalize the pivot row, eliminate
inverseEliminate(f, sw, swa) ==
    [f EXCEPT !.data = eliminateOthers(sw, f.col, f.n,
                                       normalized(sw[f.col + 1], sw[f.col + 1][f.col + 1],
                                                  0, 2 * f.n),
                                       f.col, 0, 2 * f.n),
              !.addr = swa,
              !.col = f.col + 1]

\* the throw only for a pivot that is exactly zero
inversePivotExact(f, p) ==
    IF p[2] = Zero
    THEN [f EXCEPT !.thrown = TRUE]
    ELSE inverseEliminate(f, swapIf(f.data, f.col, p[1]), swapIf(f.addr, f.col, p[1]))

\* inverse's loop body once p = <<pivotRow, maxVal>> is known;
\* thrown = TRUE is the throw
inversePivot(f, p) ==
    IF DLt(p[2], Tol)
    THEN [f EXCEPT !.thrown = TRUE]
    ELSE inverseEliminate(f, swapIf(f.data, f.col, p[1]), swapIf(f.addr, f.col, p[1]))

\* one iteration of inverse's Gauss-Jordan loop
inverseStep(f) ==
    inversePivot(f, pivotSearch(f.data, f.col, f.col, f.n, <<f.col, Zero>>))

\* determinantRecursive on the numbers d of an n x n matrix
RECURSIVE cofactorSum(_, _, _, _)
RECURSIVE detRec(_, _)
detRec(d, n) ==
    IF n = 1 THEN d[1][1]
    ELSE IF n = 2 THEN DSub(DMul(d[1][1], d[2][2]), DMul(d[1][2], d[2][1]))
    ELSE cofactorSum(d, n, 0, <<Zero, One>>)

\* submatrixData: d without its first row and its column j (0-based)
minor(d, n, j) ==
    [i \in 1..(n - 1) |-> [k \in 1..(n - 1) |-> d[i + 1][IF k - 1 < j THEN k ELSE k + 1]]]

\* the Laplace loop from column j on; acc = <<det, sign>>
cofactorSum(d, n, j, acc) ==
    IF j >= n THEN acc[1]
    ELSE cofactorSum(d, n, j + 1,
                     <<DAdd(acc[1], DMul(DMul(acc[2], d[1][j + 1]),
                                         detRec(minor(d, n, j), n - 1))),
                       DMul(acc[2], MinusOne)>>)

\* The row arrays determinantRecursive allocates on the numbers d of an n x n
\* matrix, in the order of their allocation.  For each column j of the Laplace
\* loop: the n - 1 arrays `row` pushed to submatrixData, their n - 1 copies made
\* by new Matrix(submatrixData, n - 1, n - 1), then what the recursive call on
\* the submatrix allocates.  Nothing is allocated for n <= 2.
RECURSIVE recursiveRows(_, _, _)
submatrixRows(sub, n) == sub \o sub \o recursiveRows(sub, n - 1, 0)

\* the allocations of the Laplace loop from column j on
recursiveRows(d, n, j) ==
    IF n <= 2 THEN <<>>
    ELSE IF j >= n THEN <<>>
    ELSE submatrixRows(minor(d, n, j), n) \o recursiveRows(d, n, j + 1)

\* the transpose with its columns read bottom-up
flippedData(d, rows, cols) ==
    [j \in 1..cols |-> [i \in 1..rows |-> d[rows + 1 - i][j]]]

\* the numbers of transpose's resultData
transposeData(d, rows, cols) ==
    [j \in 1..cols |-> [i \in 1..rows |-> d[i][j]]]

\* the first term of the sum only
dotFirst(a, b, i, j, n) ==
    IF n = 0 THEN Zero ELSE DMul(a[i + 1][1], b[1][j + 1])

\* mulMat's inner loop: sum = 0; sum += A[i][k] * B[k][j] for k = 0..n-1
RECURSIVE dotSum(_, _, _, _, _)
dotSum(a, b, i, j, n) ==
    IF n = 0 THEN Zero
    ELSE DAdd(dotSum(a, b, i, j, n - 1), DMul(a[i + 1][n], b[n][j + 1]))

\* the numbers of mulMat's resultData for an m x n and an n x p matrix
mulMatData(a, b, m, n, p) ==
    [i \in 1..m |-> [j \in 1..p |-> dotSum(a, b, i - 1, j - 1, n)]]

\* ------------------------------------------------------------ the state
\* A caller builds one Matrix (input) and makes the calls of script in order;
\* each call runs to its return or throw, one loop iteration per step.
VARIABLES
    heap,     \* the row arrays allocated so far
    input,    \* the caller's Matrix object
    given,    \* the numbers, rows and cols of input when it was built
    script,   \* the calls the caller makes: [f, a, b], a and b naming the
              \* arguments: 0 is input, k > 0 the matrix returned by call k
    ci,       \* the call being made or running (Len(script) + 1: all made)
    pc,       \* "idle" between calls, else the kernel whose loop is running
    fr,       \* the running kernel's local variables
    res       \* the outcome of each finished call: [err, val]

vars == <<heap, input, given, script, ci, pc, fr, res>>

\* the numbers, rows and cols of a Matrix object
View(h, m) == [data |-> Content(h, m.data), rows |-> m.rows, cols |-> m.cols]

ArgReady(k) == IF k = 0 THEN TRUE ELSE k <= Len(res) /\ res[k].err = ""
ArgM(k) == IF k = 0 THEN input ELSE res[k].val

Calling(name) ==
    /\ pc = "idle"
    /\ ci <= Len(script)
    /\ script[ci].f = name
    /\ ArgReady(script[ci].a)
    /\ ArgReady(script[ci].b)

\* the call ends with outcome o
Finish(o) ==
    /\ res' = Append(res, o)
    /\ ci' = ci + 1
    /\ pc' = "idle"
    /\ fr' = <<>>

Returned(v) == [err |-> "", val |-> v]
Thrown(e) == [err |-> e, val |-> <<>>]

\* The errors are JavaScript Error objects told apart by their message; the
\* model names them NotSquare, Singular and DimensionMismatch (SizeMismatch
\* for the message of mulVec).

\* the frame of a kernel working on the matrix object m
Working(m) == [data |-> Content(heap, m.data), addr |-> m.data, rows |-> m.rows, cols |-> m.cols]

\* ------------------------------------------------------------ rowEchelon
\* result = new Matrix(matrix.data.map(row => [...row]), matrix.rows, matrix.cols)
EchelonStart(caller, r) ==
    /\ heap' = r.heap
    /\ fr' = [caller |-> caller, result |-> r.m, pivotRow |-> 0, pivotCol |-> 0]
    /\ pc' = "rowEchelon"
    /\ UNCHANGED <<input, given, script, ci, res>>

EchelonCopy(caller, m, c) == EchelonStart(caller, MatrixNew(c.heap, c.data, <<m.rows>>, <<m.cols>>))

EchelonEntry(caller, m) == EchelonCopy(caller, m, CopyRows(heap, m.data))

CallRowEchelon == Calling("rowEchelon") /\ EchelonEntry("rowEchelon", ArgM(script[ci].a))

EchelonLooping ==
    pc = "rowEchelon" /\ fr.pivotRow < fr.result.rows /\ fr.pivotCol < fr.result.cols

\* the loop body's writes to result.data and its counters
EchelonStored(g) ==
    /\ heap' = Store(heap, g.addr, g.data)
    /\ fr' = [fr EXCEPT !.result.data = g.addr,
                        !.pivotRow = g.pivotRow, !.pivotCol = g.pivotCol]

\* F(x) with its argument passed by value: x is evaluated once, before the
\* body of F, as at a function call of the source.  A loop body is applied
\* this way and its result g named once.
ByValue(F(_), x) == CHOOSE y \in BagToSet(BagOfAll(F, SetToBag({x}))) : TRUE

RowEchelonStep ==
    /\ EchelonLooping
    /\ \E g \in {ByValue(rowEchelonStep,
                         Working(fr.result)
                         @@ [pivotRow |-> fr.pivotRow, pivotCol |-> fr.pivotCol])} :
          EchelonStored(g)
    /\ UNCHANGED <<input, given, script, ci, pc, res>>

RowEchelonReturn ==
    /\ pc = "rowEchelon" /\ ~EchelonLooping /\ fr.caller = "rowEchelon"
    /\ Finish(Returned(fr.result))
    /\ UNCHANGED <<heap, input, given, script>>

\* ------------------------------------------------------------------ rank
CallRank == Calling("rank") /\ EchelonEntry("rank", ArgM(script[ci].a))

\* rowEchelon has returned ref to rank, which counts its non-zero rows
RankReturn ==
    /\ pc = "rowEchelon" /\ ~EchelonLooping /\ fr.caller = "rank"
    /\ Finish(Returned(rankCount(Content(heap, fr.result.data),
                                 fr.result.rows, fr.result.cols)))
    /\ UNCHANGED <<heap, input, given, script>>

\* ---------------------------------------------------------- rankByPivots
PivotsStart(m, c) ==
    /\ heap' = c.heap
    /\ fr' = [data |-> c.data, rows |-> m.rows, cols |-> m.cols,
              rank |-> 0, pivotCol |-> 0, pivotRow |-> 0]
    /\ pc' = "rankByPivots"
    /\ UNCHANGED <<input, given, script, ci, res>>

PivotsEntry(m) == PivotsStart(m, CopyRows(heap, m.data))

CallRankByPivots == Calling("rankByPivots") /\ PivotsEntry(ArgM(script[ci].a))

PivotsLooping ==
    pc = "rankByPivots" /\ fr.pivotRow < fr.rows /\ fr.pivotCol < fr.cols

PivotsStored(g) ==
    /\ heap' = Store(heap, g.addr, g.data)
    /\ fr' = [fr EXCEPT !.data = g.addr, !.rank = g.rank,
                        !.pivotCol = g.pivotCol, !.pivotRow = g.pivotRow]

RankByPivotsStep ==
    /\ PivotsLooping
    /\ \E g \in {ByValue(rankByPivotsStep,
                         Working(fr)
                         @@ [rank |-> fr.rank, pivotCol |-> fr.pivotCol,
                             pivotRow |-> fr.pivotRow])} :
          PivotsStored(g)
    /\ UNCHANGED <<input, given, script, ci, pc, res>>

RankByPivotsReturn ==
    /\ pc = "rankByPivots" /\ ~PivotsLooping
    /\ Finish(Returned(fr.rank))
    /\ UNCHANGED <<heap, input, given, script>>

\* ----------------------------------------------------------- determinant
DeterminantStart(m, c) ==
    /\ heap' = c.heap
    /\ fr' = [data |-> c.data, n |-> m.rows, det |-> One, sign |-> One, col |-> 0]
    /\ pc' = "determinant"
    /\ UNCHANGED <<ci, res>>

DeterminantEntry(m) ==
    IF ~isSquare(m)
    THEN Finish(Thrown("NotSquare")) /\ UNCHANGED heap
    ELSE DeterminantStart(m, CopyRows(heap, m.data))

CallDeterminant ==
    /\ Calling("determinant")
    /\ DeterminantEntry(ArgM(script[ci].a))
    /\ UNCHANGED <<input, given, script>>

DeterminantStored(g) ==
    IF g.ret # Undefined
    THEN Finish(Returned(g.ret[1])) /\ UNCHANGED heap
    ELSE /\ heap' = Store(heap, g.addr, g.data)
         /\ fr' = [fr EXCEPT !.data = g.addr, !.det = g.det, !.sign = g.sign, !.col = g.col]
         /\ UNCHANGED <<ci, pc, res>>

DeterminantStep ==
    /\ pc = "determinant" /\ fr.col < fr.n
    /\ DeterminantStored(determinantStep([data |-> Content(heap, fr.data), addr |-> fr.data,
                                          n |-> fr.n, det |-> fr.det, sign |-> fr.sign,
                                          col |-> fr.col, ret |-> Undefined]))
    /\ UNCHANGED <<input, given, script>>

DeterminantReturn ==
    /\ pc = "determinant" /\ ~(fr.col < fr.n)
    /\ Finish(Returned(DMul(fr.sign, fr.det)))
    /\ UNCHANGED <<heap, input, given, script>>

\* --------------------------------------------------- determinantRecursive
\* the submatrices built on the way stay on the heap, unreachable
RecursiveEntry(m) ==
    IF ~isSquare(m)
    THEN Finish(Thrown("NotSquare")) /\ UNCHANGED heap
    ELSE /\ Finish(Returned(detRec(Content(heap, m.data), m.rows)))
         /\ heap' = heap \o recursiveRows(Content(heap, m.data), m.rows, 0)

CallDeterminantRecursive ==
    /\ Calling("determinantRecursive")
    /\ RecursiveEntry(ArgM(script[ci].a))
    /\ UNCHANGED <<input, given, script>>

\* --------------------------------------------------------------- inverse
\* the rows of the augmented matrix [A | I]
augmented(d, n) ==
    [i \in 1..n |-> [j \in 1..(2 * n) |->
        IF j <= n THEN d[i][j] ELSE IF j - n = i THEN One ELSE Zero]]

InverseStart(m, a) ==
    /\ heap' = a.heap
    /\ fr' = [data |-> a.data, n |-> m.rows, col |-> 0]
    /\ pc' = "inverse"
    /\ UNCHANGED <<ci, res>>

InverseCopy(m, c) ==
    InverseStart(m, Literal(c.heap, augmented(Content(c.heap, c.data), m.rows)))

InverseEntry(m) ==
    IF ~isSquare(m)
    THEN Finish(Thrown("NotSquare")) /\ UNCHANGED heap
    ELSE InverseCopy(m, CopyRows(heap, m.data))

CallInverse ==
    /\ Calling("inverse")
    /\ InverseEntry(ArgM(script[ci].a))
    /\ UNCHANGED <<input, given, script>>

InverseStored(g) ==
    IF g.thrown
    THEN Finish(Thrown("Singular")) /\ UNCHANGED heap
    ELSE /\ heap' = Store(heap, g.addr, g.data)
         /\ fr' = [fr EXCEPT !.data = g.addr, !.col = g.col]
         /\ UNCHANGED <<ci, pc, res>>

InverseStep ==
    /\ pc = "inverse" /\ fr.col < fr.n
    /\ InverseStored(inverseStep([data |-> Content(heap, fr.data), addr |-> fr.data,
                                  n |-> fr.n, col |-> fr.col, thrown |-> FALSE]))
    /\ UNCHANGED <<input, given, script>>

\* new Matrix(rowsData, rows, cols) returned to the caller
ReturnNew(r) == heap' = r.heap /\ Finish(Returned(r.m))

ReturnMatrix(l, rows, cols) == ReturnNew(MatrixNew(l.heap, l.data, <<rows>>, <<cols>>))

\* inverseData: the right half of the augmented rows
rightHalf(d, n) == [i \in 1..n |-> [j \in 1..n |-> d[i][n + j]]]

InverseReturn ==
    /\ pc = "inverse" /\ ~(fr.col < fr.n)
    /\ ReturnMatrix(Literal(heap, rightHalf(Content(heap, fr.data), fr.n)), fr.n, fr.n)
    /\ UNCHANGED <<input, given, script>>

\* ------------------------------------------------------ transpose, mulMat
\* the result built with the rows and cols of the argument, not swapped
transposeKeepsShape(m) ==
    ReturnMatrix(Literal(heap, transposeData(Content(heap, m.data), m.rows, m.cols)),
                 m.rows, m.cols)

\* return new Matrix(resultData, matrix.cols, matrix.rows)
TransposeEntry(m) ==
    ReturnMatrix(Literal(heap, transposeData(Content(heap, m.data), m.rows, m.cols)),
                 m.cols, m.rows)

CallTranspose ==
    /\ Calling("transpose")
    /\ TransposeEntry(ArgM(script[ci].a))
    /\ UNCHANGED <<input, given, script>>

MulMatEntry(ma, mb) ==
    IF ma.cols # mb.rows
    THEN Finish(Thrown("DimensionMismatch")) /\ UNCHANGED heap
    ELSE ReturnMatrix(Literal(heap, mulMatData(Content(heap, ma.data), Content(heap, mb.data),
                                               ma.rows, ma.cols, mb.cols)),
                      ma.rows, mb.cols)

CallMulMat ==
    /\ Calling("mulMat")
    /\ MulMatEntry(ArgM(script[ci].a), ArgM(script[ci].b))
    /\ UNCHANGED <<input, given, script>>

\* ---------------------------------------------------------------- inputs
\* The caller's matrices are integer matrices times one scale: every integer
\* matrix up to 3 x 3 whose absolute values sum to at most MaxWeight, and the
\* matrices of the examples.
MaxWeight == 3

\* the literal 5e-11 (0x1.b7cdfd9d7bdbbp-35): 2 * 5e-11 is exactly 1e-10
HalfTol == <<1, -87, 57646075, 30916027>>

\* the literal 1e6
Mega == FromInt(1000000)

Abs(k) == IF k < 0 THEN -k ELSE k

RECURSIVE IntVecs(_, _)
IntVecs(n, w) ==
    IF n = 0 THEN {<<>>}
    ELSE UNION {{<<k>> \o v : v \in IntVecs(n - 1, w - Abs(k))} : k \in (-w)..w}

\* the r x c integer matrices of weight at most MaxWeight
IntMatrices(r, c) ==
    {[i \in 1..r |-> [j \in 1..c |-> v[(i - 1) * c + j]]] : v \in IntVecs(r * c, MaxWeight)}

\* the number[][] literal with entries ints[i][j] * s
Scaled(ints, s) ==
    [i \in 1..Len(ints) |-> [j \in 1..Len(ints[i]) |-> DMul(FromInt(ints[i][j]), s)]]

\* new Matrix(data): rows and cols left to the constructor
Plain(ints, s) == [ints |-> ints, scale |-> s, rowsArg |-> Undefined, colsArg |-> Undefined]

\* the matrices of ex10, ex11, ex12 and ex13
Example47 == <<<<4, 7>>, <<2, 6>>>>
Example19 == <<<<1, 2, 3>>, <<4, 5, 6>>, <<7, 8, 9>>>>

ExampleSquares ==
    {Example47, Example19,
     <<<<8, 5, -2>>, <<4, 7, 20>>, <<7, 6, 1>>>>,
     <<<<1, 2, 3>>, <<2, 4, 6>>, <<3, 6, 9>>>>,
     <<<<1, 2>>, <<3, 4>>>>, <<<<-7, 5>>, <<4, 6>>>>, <<<<1, -1>>, <<-1, 1>>>>}

ExampleWide ==
    {<<<<1, 2, 3>>, <<4, 5, 6>>>>,
     <<<<1, 2, 0, 0>>, <<2, 4, 0, 0>>, <<-1, 2, 1, 1>>>>}

ExampleTall ==
    {<<<<1, 2>>, <<3, 4>>, <<5, 6>>>>,
     <<<<8, 5, -2>>, <<4, 7, 20>>, <<7, 6, 1>>, <<21, 18, 7>>>>}

SquareInputs ==
    {Plain(k, s) : k \in IntMatrices(1, 1) \cup IntMatrices(2, 2) \cup IntMatrices(3, 3),
                   s \in {One, HalfTol}}
    \cup {Plain(k, s) : k \in ExampleSquares, s \in {One, Mega}}

WideInputs ==
    {Plain(k, s) : k \in IntMatrices(1, 2) \cup IntMatrices(1, 3) \cup IntMatrices(2, 3),
                   s \in {One, HalfTol}}
    \cup {Plain(k, One) : k \in ExampleWide}

TallInputs ==
    {Plain(k, s) : k \in IntMatrices(2, 1) \cup IntMatrices(3, 1) \cup IntMatrices(3, 2),
                   s \in {One, HalfTol}}
    \cup {Plain(k, One) : k \in ExampleTall}

\* matrices with no rows (0 x 0, and 0 x c built with explicit cols) or with
\* rows of no entries (r x 0)
EmptyInputs ==
    {Plain(<<>>, One), Plain(<<<<>>>>, One), Plain(<<<<>>, <<>>>>, One)}
    \cup {[ints |-> <<>>, scale |-> One, rowsArg |-> <<0>>, colsArg |-> <<c>>] : c \in 1..3}

AllInputs == SquareInputs \cup WideInputs \cup TallInputs \cup EmptyInputs

\* new Matrix(...) by the caller, before any call; given keeps what it built
BuiltAs(x, r, calls) ==
    /\ heap = r.heap
    /\ input = r.m
    /\ given = [data |-> Content(r.heap, r.m.data), rows |-> r.m.rows,
                cols |-> r.m.cols, ints |-> x.ints, scale |-> x.scale]
    /\ script = calls
    /\ ci = 1
    /\ pc = "idle"
    /\ fr = <<>>
    /\ res = <<>>

BuiltFrom(x, l, calls) == BuiltAs(x, MatrixNew(l.heap, l.data, x.rowsArg, x.colsArg), calls)

Built(x, calls) == BuiltFrom(x, Literal(<<>>, Scaled(x.ints, x.scale)), calls)

Call1(f) == [f |-> f, a |-> 0, b |-> 0]
Call2(f, a, b) == [f |-> f, a |-> a, b |-> b]

\* ------------------------------------------------------- rank, both ways
\* ex13: rank(mat) and rankByPivots(mat) on the same matrix
RankScript == <<Call1("rank"), Call1("rankByPivots")>>

\* two equal rows of large entries: the elimination leaves a rounding
\* residue that the tests against 1e-10 of rowEchelon and rank let through
LargeDependent == {<<<<49, 1>>, <<49, 1>>>>}

InitRank ==
    \E x \in AllInputs \cup {Plain(k, Mega) : k \in LargeDependent} : Built(x, RankScript)

NextRank ==
    \/ CallRank
    \/ RowEchelonStep
    \/ RankReturn
    \/ CallRankByPivots
    \/ RankByPivotsStep
    \/ RankByPivotsReturn

SpecRank == InitRank /\ [][NextRank]_vars

\* ------------------------------------- determinant, both ways, and inverse
\* ex11 and ex12: determinant(m), determinantRecursive(m), inv = inverse(m),
\* then mulMat(m, inv) and mulMat(inv, m)
SquareScript ==
    <<Call1("determinant"), Call1("determinantRecursive"), Call1("inverse"),
      Call2("mulMat", 0, 3), Call2("mulMat", 3, 0)>>

\* the other matrices of ex11 with integer entries (2 I3, [[5]]), and integer
\* matrices of sizes 2, 3 and 4 whose elimination divides by 3 or by 2.5
DeterminantSquares ==
    {<<<<2, 0, 0>>, <<0, 2, 0>>, <<0, 0, 2>>>>,
     <<<<5>>>>,
     <<<<-3, -2>>, <<-2, -1>>>>,
     <<<<-2, 1, 3>>, <<3, 3, -3>>, <<-1, -3, 0>>>>,
     <<<<-1, 1, 2, 2>>, <<-3, -3, 0, 1>>, <<-3, -2, -1, -1>>, <<-3, -1, -1, -3>>>>}

\* 2 x 2 matrices with entries of a few 1e-10 whose second pivot is 1e-10
\* up to rounding
ThresholdSquares == {<<<<3, 3>>, <<2, 4>>>>, <<<<3, 2>>, <<3, 4>>>>}

InitSquare ==
    \E x \in SquareInputs \cup WideInputs \cup TallInputs
             \cup {Plain(k, One) : k \in DeterminantSquares}
             \cup {Plain(k, HalfTol) : k \in ThresholdSquares} :
        Built(x, SquareScript)

NextSquare ==
    \/ CallDeterminant
    \/ DeterminantStep
    \/ DeterminantReturn
    \/ CallDeterminantRecursive
    \/ CallInverse
    \/ InverseStep
    \/ InverseReturn
    \/ CallMulMat

SpecSquare == InitSquare /\ [][NextSquare]_vars

\* ------------------------------------------------------ rowEchelon twice
EchelonScript == <<Call1("rowEchelon"), Call2("rowEchelon", 1, 0)>>

InitEchelon == \E x \in AllInputs : Built(x, EchelonScript)

NextEchelon ==
    \/ CallRowEchelon
    \/ RowEchelonStep
    \/ RowEchelonReturn

SpecEchelon == InitEchelon /\ [][NextEchelon]_vars

\* ------------------------------------------------------- transpose twice
TransposeScript == <<Call1("transpose"), Call2("transpose", 1, 0)>>

InitTranspose == \E x \in AllInputs : Built(x, TransposeScript)

NextTranspose == CallTranspose

SpecTranspose == InitTranspose /\ [][NextTranspose]_vars

\* ------------------------------------------- every kernel on one matrix
KernelScript ==
    <<Call1("rowEchelon"), Call1("rank"), Call1("rankByPivots"),
      Call1("determinant"), Call1("determinantRecursive"), Call1("inverse")>>

InitKernels ==
    \E x \in AllInputs \cup {Plain(k, HalfTol) : k \in ThresholdSquares} :
        Built(x, KernelScript)

NextKernels ==
    \/ CallRowEchelon
    \/ RowEchelonStep
    \/ RowEchelonReturn
    \/ CallRank
    \/ RankReturn
    \/ CallRankByPivots
    \/ RankByPivotsStep
    \/ RankByPivotsReturn
    \/ CallDeterminant
    \/ DeterminantStep
    \/ DeterminantReturn
    \/ CallDeterminantRecursive
    \/ CallInverse
    \/ InverseStep
    \/ InverseReturn

SpecKernels == InitKernels /\ [][NextKernels]_vars

\* ------------------------------------------ Vector, reshape, constructor
\* A Vector object is [data, size] with data the address of its array.

\* new Vector(data): this.data = [...data], this.size = data.length
VectorNew(h, addr) ==
    [heap |-> Append(h, h[addr]),
     v |-> [data |-> Len(h) + 1, size |-> Len(h[addr])]]

\* an index argument of Array.prototype.slice brought into 0..len
SliceIndex(k, len) ==
    IF k < 0 THEN (IF len + k < 0 THEN 0 ELSE len + k)
    ELSE IF k > len THEN len ELSE k

\* arr.slice(a, b)
slice(arr, a, b) ==
    [i \in 1..(SliceIndex(b, Len(arr)) - SliceIndex(a, Len(arr))) |->
        arr[SliceIndex(a, Len(arr)) + i]]

\* flatData of Matrix.toVector: the entries of this.data, row after row
RECURSIVE flatData(_, _, _)
flatData(h, addrs, i) ==
    IF i > Len(addrs) THEN <<>> ELSE h[addrs[i]] \o flatData(h, addrs, i + 1)

\* Matrix.toVector: new Vector(flatData)
toVector(h, m) == VectorNew(Append(h, flatData(h, m.data, 1)), Len(h) + 1)

\* the rows pushed by the loop of toMatrix and of reshape:
\* arr.slice(i * cols, (i + 1) * cols) for i = 0..rows-1
sliced(arr, rows, cols) ==
    [i \in 1..rows |-> slice(arr, (i - 1) * cols, i * cols)]

\* new Matrix(matrixData, rows, cols) on the rows just pushed
MatrixOf(l, rows, cols) == MatrixNew(l.heap, l.data, <<rows>>, <<cols>>)

\* the size test of Vector.toMatrix
sizeFits(v, rows, cols) == v.size = rows * cols

\* Vector.toMatrix(rows, cols): ok = FALSE is the throw
toMatrix(h, v, rows, cols) ==
    IF ~sizeFits(v, rows, cols)
    THEN [ok |-> FALSE, heap |-> h]
    ELSE [ok |-> TRUE] @@ MatrixOf(Literal(h, sliced(h[v.data], rows, cols)), rows, cols)

\* rows times cols is not newRows: only the row count is compared
reshapeFitsRows(m, newRows, newCols) == m.rows = newRows

\* the element count test of Matrix.reshape
reshapeFits(m, newRows, newCols) == m.rows * m.cols = newRows * newCols

\* reshape once this.toVector() has returned t
reshapeFrom(t, newRows, newCols) ==
    [ok |-> TRUE]
    @@ MatrixOf(Literal(t.heap, sliced(t.heap[t.v.data], newRows, newCols)), newRows, newCols)

\* Matrix.reshape(newRows, newCols): ok = FALSE is the throw
reshape(h, m, newRows, newCols) ==
    IF ~reshapeFits(m, newRows, newCols)
    THEN [ok |-> FALSE, heap |-> h]
    ELSE reshapeFrom(toVector(h, m), newRows, newCols)

\* a call of toMatrix, fromVector or reshape ends with o
ShapeDone(o) ==
    /\ heap' = o.heap
    /\ Finish(IF o.ok THEN Returned(o.m) ELSE Thrown("InvalidReshape"))
    /\ UNCHANGED <<input, given, script>>

VectorDone(t) ==
    /\ heap' = t.heap
    /\ Finish(Returned(t.v))
    /\ UNCHANGED <<input, given, script>>

CallToVector == Calling("toVector") /\ VectorDone(toVector(heap, ArgM(script[ci].a)))

CallToMatrix ==
    /\ Calling("toMatrix")
    /\ ShapeDone(toMatrix(heap, ArgM(script[ci].a), script[ci].r, script[ci].c))

\* Matrix.fromVector(vector, rows, cols) is vector.toMatrix(rows, cols)
CallFromVector ==
    /\ Calling("fromVector")
    /\ ShapeDone(toMatrix(heap, ArgM(script[ci].a), script[ci].r, script[ci].c))

CallReshape ==
    /\ Calling("reshape")
    /\ ShapeDone(reshape(heap, ArgM(script[ci].a), script[ci].r, script[ci].c))

\* the shapes asked for and the sizes of the receivers go up to MaxDim
MaxDim == 3

\* the r x c matrix of the numbers 1, 2, ... in row-major order
Counted(r, c) == [i \in 1..r |-> [j \in 1..c |-> (i - 1) * c + j]]

\* well-formed receivers: r x c for r, c in 0..MaxDim, and no rows with cols given
ShapeInputs ==
    {Plain(Counted(r, c), One) : r \in 0..MaxDim, c \in 0..MaxDim}
    \cup {[ints |-> <<>>, scale |-> One, rowsArg |-> <<0>>, colsArg |-> <<c>>] : c \in 1..MaxDim}

CallRC(f, a, r, c) == [f |-> f, a |-> a, b |-> 0, r |-> r, c |-> c]

\* v = m.toVector(); v.toMatrix(r, c); Matrix.fromVector(v, r, c); m.reshape(r, c)
ReshapeScript(r, c) ==
    <<Call1("toVector"), CallRC("toMatrix", 1, r, c),
      CallRC("fromVector", 1, r, c), CallRC("reshape", 0, r, c)>>

InitReshape ==
    \E x \in ShapeInputs : \E r \in (-MaxDim)..MaxDim : \E c \in (-MaxDim)..MaxDim :
        Built(x, ReshapeScript(r, c))

NextReshape ==
    \/ CallToVector
    \/ CallToMatrix
    \/ CallFromVector
    \/ CallReshape

SpecReshape == InitReshape /\ [][NextReshape]_vars

\* ------------------------------------------------ the constructor alone
\* The caller's call new Matrix(data, rows, cols) as a step of its own.  Here
\* input holds the three arguments (data: the addresses of the caller's
\* row arrays) and given the numbers of those arrays.

\* the sequences of n row lengths, each in 0..MaxDim
RECURSIVE RowLengths(_)
RowLengths(n) ==
    IF n = 0 THEN {<<>>}
    ELSE {Append(l, k) : l \in RowLengths(n - 1), k \in 0..MaxDim}

\* the rows of lengths l; entry j of row i is the number 10 i + j
Filled(l) == [i \in 1..Len(l) |-> [j \in 1..l[i] |-> FromInt(10 * i + j)]]

\* an optional rows or cols argument
OptionalDims == {Undefined} \cup {<<k>> : k \in 0..MaxDim}

ArgsAs(l, d, rowsArg, colsArg) ==
    /\ heap = l.heap
    /\ input = [data |-> l.data, rows |-> rowsArg, cols |-> colsArg]
    /\ given = [data |-> d, rows |-> rowsArg, cols |-> colsArg]
    /\ script = <<Call1("Matrix")>>
    /\ ci = 1
    /\ pc = "idle"
    /\ fr = <<>>
    /\ res = <<>>

InitConstruct ==
    \E n \in 0..MaxDim : \E l \in RowLengths(n) :
        \E rowsArg \in OptionalDims : \E colsArg \in OptionalDims :
            ArgsAs(Literal(<<>>, Filled(l)), Filled(l), rowsArg, colsArg)

\* the constructor has no throw: it ends with the object it built
Constructed(r) ==
    /\ heap' = r.heap
    /\ Finish(Returned(r.m))
    /\ UNCHANGED <<input, given, script>>

CallMatrix == Calling("Matrix") /\ Constructed(MatrixNew(heap, input.data, input.rows, input.cols))

NextConstruct == CallMatrix

SpecConstruct == InitConstruct /\ [][NextConstruct]_vars

\* ------------------------------------ the two loops, run to their end
\* rowEchelon(mat) then rankByPivots(mat).  A call runs synchronously: once
\* entered, its loop takes iteration after iteration until the function
\* returns, and the caller then makes its next call.
LoopsScript == <<Call1("rowEchelon"), Call1("rankByPivots")>>

InitLoops == \E x \in AllInputs : Built(x, LoopsScript)

NextLoops ==
    \/ CallRowEchelon
    \/ RowEchelonStep
    \/ RowEchelonReturn
    \/ CallRankByPivots
    \/ RankByPivotsStep
    \/ RankByPivotsReturn

SpecLoops == InitLoops /\ [][NextLoops]_vars /\ WF_vars(NextLoops)

\* ----------------------------------------------------- mulVec and mulMat
\* mulVec's inner loop: sum = 0; sum += matrix[i][j] * vector[j] for j = 0..n-1
RECURSIVE vecSum(_, _, _, _)
vecSum(a, v, i, n) ==
    IF n = 0 THEN Zero
    ELSE DAdd(vecSum(a, v, i, n - 1), DMul(a[i + 1][n], v[n]))

\* the numbers of mulVec's resultData for an m x n matrix
mulVecData(a, v, m, n) == [i \in 1..m |-> vecSum(a, v, i - 1, n)]

\* mulVec(matrix, vector): the throw, or new Vector(resultData)
MulVecEntry(ma, v) ==
    IF ma.cols # v.size
    THEN Finish(Thrown("SizeMismatch")) /\ UNCHANGED <<heap, input, given, script>>
    ELSE VectorDone(VectorNew(Append(heap, mulVecData(Content(heap, ma.data), heap[v.data],
                                                      ma.rows, ma.cols)),
                              Len(heap) + 1))

CallMulVec ==
    /\ Calling("mulVec")
    /\ MulVecEntry(ArgM(script[ci].a), ArgM(script[ci].b))

\* ex07 on one r x c matrix X: X X^T (r x r), X X (square X only),
\* X^T (X X^T) (c x r), and with the vector v of all entries of X the products
\* (X X^T) v (c = 1 only) and X v (r = 1 only)
MulScript ==
    <<Call1("transpose"), Call2("mulMat", 0, 1), Call2("mulMat", 0, 0),
      Call2("mulMat", 1, 2), Call1("toVector"), Call2("mulVec", 2, 5),
      Call2("mulVec", 0, 5)>>

\* the matrices of AllInputs with integer entries
InitMul == \E x \in {y \in AllInputs : y.scale = One} : Built(x, MulScript)

NextMul ==
    \/ CallTranspose
    \/ CallMulMat
    \/ CallToVector
    \/ CallMulVec

SpecMul == InitMul /\ [][NextMul]_vars

\* ------------------------------------------------------- inverse twice
\* inv = inverse(m), then inverse(inv)
TwiceScript == <<Call1("inverse"), Call2("inverse", 1, 0)>>

\* the square inputs, and the 1 x 1 matrix [[1e12]] (1e6 * 1e6 is exact)
InitTwice ==
    \E x \in SquareInputs \cup {Plain(<<<<1>>>>, DMul(Mega, Mega))} :
        Built(x, TwiceScript)

NextTwice ==
    \/ CallInverse
    \/ InverseStep
    \/ InverseReturn

SpecTwice == InitTwice /\ [][NextTwice]_vars

\* ------------------------------------------- reshaped, then flattened
\* m.reshape(r, c).toVector(); v = m.toVector(); v.toMatrix(r, c).toVector()
OrderScript(r, c) ==
    <<CallRC("reshape", 0, r, c), Call2("toVector", 1, 0), Call1("toVector"),
      CallRC("toMatrix", 3, r, c), Call2("toVector", 4, 0)>>

InitOrder ==
    \E x \in ShapeInputs : \E r \in (-MaxDim)..MaxDim : \E c \in (-MaxDim)..MaxDim :
        Built(x, OrderScript(r, c))

NextOrder ==
    \/ CallReshape
    \/ CallToVector
    \/ CallToMatrix

SpecOrder == InitOrder /\ [][NextOrder]_vars

\* ============================================================ properties
\* the literals 1e-8 and 1e-6
Eps8 == <<1, -79, 45035996, 36736058>>
Eps6 == <<1, -72, 35184372, 11922829>>

\* |x - y| < eps
Within(x, y, eps) == DLt(abs(DSub(x, y)), eps)

Min(a, b) == IF a < b THEN a ELSE b

\* the exact determinant of the n x n integer matrix k
RECURSIVE intDet(_, _)
RECURSIVE intCofactors(_, _, _)
intCofactors(k, n, j) ==
    IF j > n THEN 0
    ELSE (IF j % 2 = 1 THEN 1 ELSE -1) * k[1][j]
            * intDet([i \in 1..(n - 1) |-> [c \in 1..(n - 1) |->
                         k[i + 1][IF c < j THEN c ELSE c + 1]]], n - 1)
         + intCofactors(k, n, j + 1)

intDet(k, n) == IF n = 0 THEN 1 ELSE IF n = 1 THEN k[1][1] ELSE intCofactors(k, n, 1)

GivenSquare == given.rows = given.cols

\* the caller's matrix as the caller built it
GivenView == [data |-> given.data, rows |-> given.rows, cols |-> given.cols]

\* the matrix object m is the n x n identity, each entry within 1e-8
NearIdentity(m, n) ==
    /\ m.rows = n /\ m.cols = n
    /\ \A i \in 1..n : \A j \in 1..n :
          Within(heap[m.data[i]][j], IF i = j THEN One ELSE Zero, Eps8)

\* the literals 0.6, -0.7, -0.2 and 0.4
Inverse47 ==
    <<<< <<1, -53, 40265318, 53687091>>, <<-1, -53, 46976204, 107374182>> >>,
      << <<-1, -55, 53687091, 26843546>>, <<1, -54, 53687091, 26843546>> >>>>

\* C1: for every square invertible A, inverse(A) returns a matrix B with
\* mulMat(A, B) and mulMat(B, A) both the identity, each entry within 1e-8;
\* inverse([[4,7],[2,6]]) is [[0.6,-0.7],[-0.2,0.4]] (within 1e-8).
C1_InverseOfInvertible ==
    (GivenSquare /\ intDet(given.ints, given.rows) # 0) =>
        /\ Len(res) >= 3 => res[3].err = ""
        /\ Len(res) >= 4 => res[4].err = "" /\ NearIdentity(res[4].val, given.rows)
        /\ Len(res) >= 5 => res[5].err = "" /\ NearIdentity(res[5].val, given.rows)
        /\ (Len(res) >= 3 /\ given.ints = Example47 /\ given.scale = One) =>
              \A i \in 1..2 : \A j \in 1..2 :
                  Within(heap[res[3].val.data[i]][j], Inverse47[i][j], Eps8)

\* C2: for every matrix M, entries at or near 1e-10 included, rank(M) and
\* rankByPivots(M) return the same integer.
C2_RankMethodsAgree ==
    Len(res) = 2 => res[1].val = res[2].val

\* C3: for every square matrix from 1 x 1 to 4 x 4, determinant and
\* determinantRecursive return values less than 1e-6 apart.
C3_DeterminantsAgree ==
    (GivenSquare /\ given.rows \in 1..4 /\ Len(res) >= 2) =>
        Within(res[1].val, res[2].val, Eps6)

\* C4: rowEchelon(rowEchelon(M)) has the shape and the entries of rowEchelon(M).
C4_EchelonIdempotent ==
    Len(res) = 2 =>
        /\ res[1].err = "" /\ res[2].err = ""
        /\ View(heap, res[2].val) = View(heap, res[1].val)

C4_Witness ==
    /\ Len(res) = 2
    /\ given.rows = 2 /\ given.cols = 3
    /\ given.scale = HalfTol
    /\ Content(heap, res[1].val.data) # given.data

\* C5: transpose(transpose(M)) has the rows, cols and entries of M, also
\* for an M with no rows or no columns.
C5_TransposeInvolution ==
    Len(res) = 2 =>
        /\ res[1].err = "" /\ res[2].err = ""
        /\ View(heap, res[2].val) = GivenView

C5_Witness ==
    /\ Len(res) = 2
    /\ given.rows = 0 /\ given.cols = 3
    /\ res[1].val.rows = 3 /\ res[1].val.cols = 0

\* C6: on a matrix with rows # cols, determinant, determinantRecursive and
\* inverse each fail with NotSquare and return nothing, whatever the entries;
\* no working copy is made and no elimination loop is entered.
C6_NotSquareFirst ==
    ~GivenSquare =>
        /\ pc = "idle"
        /\ Len(heap) = 2 * Len(given.data)
        /\ \A k \in 1..Len(res) : res[k] = [err |-> "NotSquare", val |-> <<>>]

C6_Witness ==
    /\ Len(res) = 3
    /\ given.rows = 2 /\ given.cols = 3
    /\ \A i \in 1..2 : \A j \in 1..3 : given.data[i][j] = Zero
    /\ res[3].err = "NotSquare"

\* every magnitude in rows col..n-1 of column col of the augmented matrix
\* is below 1e-10
NoPivotInColumn ==
    \A i \in (fr.col + 1)..fr.n : DLt(abs(heap[fr.data[i]][fr.col + 1]), Tol)

\* C7: at a pivot column where the largest magnitude at or below the current
\* row is below 1e-10, inverse fails with Singular at once and returns no
\* matrix; at any other pivot column it goes on.
C7_SingularAtOnce ==
    [][(pc = "inverse" /\ fr.col < fr.n) =>
          IF NoPivotInColumn
          THEN /\ res' = Append(res, [err |-> "Singular", val |-> <<>>])
               /\ pc' = "idle"
               /\ heap' = heap
          ELSE /\ res' = res
               /\ pc' = "inverse"]_vars

C7_Witness ==
    /\ Len(res) = 3
    /\ given.ints = <<<<1, -1>>, <<-1, 1>>>> /\ given.scale = One
    /\ res[3] = [err |-> "Singular", val |-> <<>>]

\* C8: for every square matrix whose exact determinant is zero, determinant
\* returns exactly 0 and inverse fails with Singular.
C8_SingularIsZero ==
    (GivenSquare /\ intDet(given.ints, given.rows) = 0) =>
        /\ Len(res) >= 1 => res[1] = [err |-> "", val |-> Zero]
        /\ Len(res) >= 3 => res[3] = [err |-> "Singular", val |-> <<>>]

\* call k returned a Matrix object
ReturnedMatrix(k) == res[k].err = "" /\ script[k].f \in {"rowEchelon", "inverse"}

\* C9: during and after rowEchelon, rank, rankByPivots, determinant,
\* determinantRecursive and inverse, returning or failing, the input's rows,
\* cols and entries are as the caller built them, and a returned matrix has
\* no row array in common with the input.
C9_InputUntouched ==
    /\ View(heap, input) = GivenView
    /\ \A k \in 1..Len(res) :
          ReturnedMatrix(k) =>
              \A i \in 1..Len(res[k].val.data) : \A j \in 1..Len(input.data) :
                  res[k].val.data[i] # input.data[j]

C9_Witness ==
    /\ Len(res) = 6
    /\ res[6].err = ""
    /\ Content(heap, res[1].val.data) # given.data
    /\ Content(heap, res[6].val.data) # given.data

\* C10: rank(M) and rankByPivots(M) each return an integer r with
\* 0 <= r <= min(rows, cols).
C10_RankInRange ==
    \A k \in 1..Len(res) :
        /\ res[k].err = ""
        /\ res[k].val \in 0..Min(given.rows, given.cols)

C10_Witness ==
    /\ Len(res) = 2
    /\ given.rows = 3 /\ given.cols = 2
    /\ res[1].val = 2 /\ res[2].val = 2

\* the column (from 1) of the first non-zero entry of row, 0 for a zero row
Lead(row) ==
    IF \A j \in 1..Len(row) : row[j] = Zero THEN 0
    ELSE CHOOSE j \in 1..Len(row) : row[j] # Zero /\ \A k \in 1..(j - 1) : row[k] = Zero

\* the rows d are in reduced row-echelon form
Reduced(d) ==
    \A i \in 1..Len(d) :
        Lead(d[i]) > 0 =>
            /\ d[i][Lead(d[i])] = One
            /\ i > 1 => Lead(d[i - 1]) > 0 /\ Lead(d[i - 1]) < Lead(d[i])
            /\ \A k \in 1..Len(d) : k # i => d[k][Lead(d[i])] = Zero

\* C11: for every matrix M, rowEchelon(M) is in reduced row-echelon form: in
\* every non-zero row the leading non-zero entry is 1, it lies strictly to the
\* right of the leading entry of the row above, and every other entry of its
\* column is zero.
C11_EchelonReduced ==
    Len(res) >= 1 =>
        res[1].err = "" /\ Reduced(Content(heap, res[1].val.data))

\* the entries of the rows d, row after row
RECURSIVE Flat(_, _)
Flat(d, i) == IF i > Len(d) THEN <<>> ELSE d[i] \o Flat(d, i + 1)

\* the number of elements of the caller's matrix, and of the vector made of it
GivenCount == Len(Flat(given.data, 1))

\* call k asked for a shape whose rows * cols is not the receiver's element count
BadShape(k) ==
    /\ script[k].f \in {"toMatrix", "reshape"}
    /\ script[k].r * script[k].c # GivenCount

\* C12: Matrix.reshape(r, c) and Vector.toMatrix(r, c) fail with
\* InvalidReshape whenever r * c differs from the element count of the
\* receiver (a well-formed matrix, or the vector of its entries); no matrix
\* is produced, nothing is allocated, and the receiver is unchanged.
C12_InvalidReshape ==
    /\ View(heap, input) = GivenView
    /\ Len(res) >= 1 =>
          /\ res[1].val.size = GivenCount
          /\ heap[res[1].val.data] = Flat(given.data, 1)
    /\ \A k \in 1..Len(res) : BadShape(k) => res[k] = [err |-> "InvalidReshape", val |-> <<>>]
    /\ (Len(res) = 4 /\ BadShape(2) /\ BadShape(4)) => Len(heap) = 2 * Len(given.data) + 2

C12_Witness ==
    /\ Len(res) = 4
    /\ given.rows = 2 /\ given.cols = 3
    /\ script[4].r = 3 /\ script[4].c = 3
    /\ res[2].err = "InvalidReshape" /\ res[4].err = "InvalidReshape"

\* the Matrix object m has rows = length(data), rows of length cols, and
\* rows >= 0, cols >= 0
WellShaped(m) ==
    /\ m.rows = Len(m.data)
    /\ \A i \in 1..Len(m.data) : Len(heap[m.data[i]]) = m.cols
    /\ m.rows >= 0 /\ m.cols >= 0

\* C13: every Matrix returned by Vector.toMatrix, Matrix.fromVector or
\* Matrix.reshape for a well-formed receiver and any integer arguments the
\* operation accepts has rows = length(data), every row of length cols,
\* rows >= 0 and cols >= 0.
C13_ReturnedWellShaped ==
    \A k \in 2..Len(res) : res[k].err = "" => WellShaped(res[k].val)

\* the caller's rows differ in length
Jagged(d) == \E i \in 1..Len(d) : \E j \in 1..Len(d) : Len(d[i]) # Len(d[j])

\* an explicit rows argument is not the number of rows supplied, or an
\* explicit cols argument is not the length of a row supplied
ArgsMismatch ==
    \/ given.rows # Undefined /\ given.rows[1] # Len(given.data)
    \/ given.cols # Undefined /\ \E i \in 1..Len(given.data) : Len(given.data[i]) # given.cols[1]

\* C14: the Matrix constructor fails when given rows of differing lengths,
\* or explicit rows/cols arguments that do not match the data supplied.
C14_ConstructorRejects ==
    (Len(res) = 1 /\ (Jagged(given.data) \/ ArgsMismatch)) => res[1].err # ""

\* the literal 1e-9
Eps9 == <<1, -82, 36028797, 2545301>>

\* the caller's matrix is square with the integer entries given.ints
GivenIntegers == GivenSquare /\ given.rows \in 1..4 /\ given.scale = One

\* the exact determinant of the caller's integer matrix, as a number
ExactDet == FromInt(intDet(given.ints, given.rows))

\* C15 as stated: for every square matrix with small integer entries (1 x 1
\* to 4 x 4) determinant and determinantRecursive each return the exact
\* determinant.
C15_ExactDeterminants ==
    (GivenIntegers /\ Len(res) >= 2) =>
        /\ res[1] = [err |-> "", val |-> ExactDet]
        /\ res[2] = [err |-> "", val |-> ExactDet]

ExampleDets ==
    {<<<<<<8, 5, -2>>, <<4, 7, 20>>, <<7, 6, 1>>>>, FromInt(-174)>>,
     <<<<<<2, 0, 0>>, <<0, 2, 0>>, <<0, 0, 2>>>>, FromInt(8)>>,
     <<<<<<1, 0, 0>>, <<0, 1, 0>>, <<0, 0, 1>>>>, FromInt(1)>>,
     <<<<<<5>>>>, FromInt(5)>>}

\* C15 amended: for every square matrix with small integer entries (1 x 1 to
\* 4 x 4) determinantRecursive returns the exact determinant and determinant
\* returns a value within 1e-9 of it; on the matrices of the examples
\* (-174, 8, 1, 5) determinant is exact as well.
C15_DeterminantsOfIntegers ==
    (GivenIntegers /\ Len(res) >= 2) =>
        /\ res[1].err = "" /\ Within(res[1].val, ExactDet, Eps9)
        /\ res[2] = [err |-> "", val |-> ExactDet]
        /\ \A e \in ExampleDets : given.ints = e[1] => res[1].val = e[2]

C15_Witness ==
    /\ Len(res) >= 2
    /\ given.ints = <<<<-2, 1, 3>>, <<3, 3, -3>>, <<-1, -3, 0>>>> /\ given.scale = One
    /\ res[1].val # FromInt(3)
    /\ res[2].val = FromInt(3)

\* the strictly increasing choices of n indices out of 1..m
Increasing(n, m) == {f \in [1..n -> 1..m] : \A i \in 1..(n - 1) : f[i] < f[i + 1]}

\* the integer matrix k has an n x n minor with a non-zero determinant
HasMinor(k, rows, cols, n) ==
    \E r \in Increasing(n, rows) : \E c \in Increasing(n, cols) :
        intDet([i \in 1..n |-> [j \in 1..n |-> k[r[i]][c[j]]]], n) # 0

\* the rank of the rows x cols integer matrix k: the size of its largest
\* non-vanishing minor
TrueRank(k, rows, cols) ==
    CHOOSE n \in 0..Min(rows, cols) :
        /\ HasMinor(k, rows, cols, n)
        /\ \A b \in (n + 1)..Min(rows, cols) : ~HasMinor(k, rows, cols, b)

ExampleRanks ==
    {<<<<<<1, 2, 0, 0>>, <<2, 4, 0, 0>>, <<-1, 2, 1, 1>>>>, 2>>,
     <<<<<<1, 2, 3>>, <<2, 4, 6>>, <<3, 6, 9>>>>, 1>>,
     <<<<<<1, 0, 0>>, <<0, 1, 0>>, <<0, 0, 1>>>>, 3>>,
     <<<<<<0, 0, 0>>, <<0, 0, 0>>>>, 0>>}

\* C16: for every matrix with small integer entries rank(M) is the true
\* rank of M: 0 for a zero matrix, 2 for [[1,2,0,0],[2,4,0,0],[-1,2,1,1]],
\* 1 for [[1,2,3],[2,4,6],[3,6,9]], n for the n x n identity.
C16_RankIsTrueRank ==
    (given.scale = One /\ Len(res) >= 1) =>
        /\ res[1] = [err |-> "", val |-> TrueRank(given.ints, given.rows, given.cols)]
        /\ \A e \in ExampleRanks : given.ints = e[1] => res[1].val = e[2]

C16_Witness ==
    /\ Len(res) >= 1
    /\ given.ints = Example19 /\ given.scale = One
    /\ res[1].val = 2

\* the integer vectors u and v are equal, or both non-zero and proportional
Proportional(u, v) ==
    /\ \A a \in 1..Len(u) : \A b \in 1..Len(u) : u[a] * v[b] = u[b] * v[a]
    /\ \/ u = v
       \/ (\E a \in 1..Len(u) : u[a] # 0) /\ (\E a \in 1..Len(v) : v[a] # 0)

GivenColumn(j) == [i \in 1..given.rows |-> given.ints[i][j]]

\* two rows of the caller's matrix are duplicate or proportional
ProportionalRows ==
    \E i \in 1..given.rows : \E j \in 1..given.rows :
        i # j /\ Proportional(given.ints[i], given.ints[j])

\* two columns of the caller's matrix are duplicate or proportional
ProportionalCols ==
    given.rows > 0 /\
    \E i \in 1..given.cols : \E j \in 1..given.cols :
        i # j /\ Proportional(GivenColumn(i), GivenColumn(j))

\* C17 as stated: with two duplicate or proportional rows, or two duplicate
\* or proportional columns, rank and rankByPivots both return less than
\* min(rows, cols).
C17_DependentBelowMin ==
    (Len(res) = 2 /\ (ProportionalRows \/ ProportionalCols)) =>
        /\ res[1].val < Min(given.rows, given.cols)
        /\ res[2].val < Min(given.rows, given.cols)

\* the square matrix [[49e6, 1e6], [49e6, 1e6]] of two equal rows, for which
\* rank returns 2 and rankByPivots 1
C17_Witness ==
    /\ Len(res) = 2
    /\ given.ints = <<<<49, 1>>, <<49, 1>>>> /\ given.scale = Mega
    /\ ProportionalRows /\ ProportionalCols
    /\ res[1].val = 2 /\ res[2].val = 1

\* the Matrix object t is the transpose of the caller's matrix
TransposeOfGiven(t) ==
    /\ t.rows = given.cols /\ t.cols = given.rows
    /\ Len(t.data) = given.cols
    /\ \A j \in 1..given.cols :
          /\ Len(heap[t.data[j]]) = given.rows
          /\ \A i \in 1..given.rows : heap[t.data[j]][i] = given.data[i][j]

\* C18: for every rows x cols matrix M, transpose(M) is a new matrix of
\* shape cols x rows whose entry (j, i) is M's entry (i, j); M keeps its
\* rows and shares none with the result.
C18_TransposeEntries ==
    Len(res) >= 1 =>
        /\ res[1].err = ""
        /\ TransposeOfGiven(res[1].val)
        /\ View(heap, input) = GivenView
        /\ \A a \in 1..Len(res[1].val.data) : \A b \in 1..Len(input.data) :
              res[1].val.data[a] # input.data[b]

C18_Witness ==
    /\ Len(res) >= 1
    /\ given.ints = <<<<1, 2, 3>>, <<4, 5, 6>>>> /\ given.scale = One
    /\ Content(heap, res[1].val.data) = Scaled(<<<<1, 4>>, <<2, 5>>, <<3, 6>>>>, One)

\* the caller's matrix is the n x n identity, n >= 1
GivenIdentity ==
    /\ GivenSquare /\ given.rows >= 1 /\ given.scale = One
    /\ \A i \in 1..given.rows : \A j \in 1..given.rows :
          given.ints[i][j] = (IF i = j THEN 1 ELSE 0)

\* the row arrays at addrs are in the order they were allocated in
InOrder(addrs) == \A i \in 1..(Len(addrs) - 1) : addrs[i] < addrs[i + 1]

\* C19: rowEchelon applied to the n x n identity returns the n x n identity:
\* no step swaps two rows or changes an entry, and the result has the
\* shape and the entries of the input.
C19_EchelonOfIdentity ==
    GivenIdentity =>
        /\ pc = "rowEchelon" =>
              /\ InOrder(fr.result.data)
              /\ Content(heap, fr.result.data) = given.data
        /\ Len(res) >= 1 =>
              /\ res[1].err = ""
              /\ InOrder(res[1].val.data)
              /\ View(heap, res[1].val) = GivenView

C19_Witness ==
    /\ GivenIdentity /\ given.rows = 3
    /\ Len(res) >= 1
    /\ Content(heap, res[1].val.data) = given.data

\* the row rowEchelon's pivot search picks in the current column (0-based)
EchelonMaxRow ==
    fr.pivotRow
    + findMaxIndex([i \in 1..(fr.result.rows - fr.pivotRow) |->
                       heap[fr.result.data[fr.pivotRow + i]][fr.pivotCol + 1]], 0)

\* the rows sw after the whole pivot row is divided by the pivot and
\* factor_i times the whole pivot row is subtracted from every other row i
WholeRows(sw) ==
    eliminateOthers(sw, fr.pivotRow, fr.result.rows,
                    normalized(sw[fr.pivotRow + 1], sw[fr.pivotRow + 1][fr.pivotCol + 1],
                               0, fr.result.cols),
                    fr.pivotCol, 0, fr.result.cols)

\* C20: in a step of rowEchelon that takes a pivot, the entire pivot row
\* (columns 0..cols-1) is divided by the pivot value and factor_i times the
\* entire pivot row is subtracted from every other row i; entries left of
\* pivotCol are transformed like the entries at or right of it.
C20_WholeRowOperations ==
    [][(pc = "rowEchelon" /\ pc' = "rowEchelon" /\ fr'.pivotRow = fr.pivotRow + 1) =>
          Content(heap', fr'.result.data)
              = WholeRows(swapIf(Content(heap, fr.result.data), fr.pivotRow, EchelonMaxRow))]_vars

\* the working rows' addresses, the pivot row and the column of the kernel
\* whose loop is running (0-based counters)
StepAddrs == IF pc = "rowEchelon" THEN fr.result.data ELSE fr.data
StepRows == Len(StepAddrs)
StepRow == IF pc \in {"rowEchelon", "rankByPivots"} THEN fr.pivotRow ELSE fr.col
StepCol == IF pc \in {"rowEchelon", "rankByPivots"} THEN fr.pivotCol ELSE fr.col

\* the running loop takes a pivot in this step and goes on
TakesPivot ==
    /\ pc \in {"rowEchelon", "rankByPivots", "determinant", "inverse"}
    /\ pc' = pc
    /\ IF pc \in {"rowEchelon", "rankByPivots"}
       THEN fr'.pivotRow = fr.pivotRow + 1
       ELSE fr'.col = fr.col + 1

\* the magnitude, before the step, of the current column's entry in the row
\* stored at address a
ColumnAbs(a) == abs(heap[a][StepCol + 1])

\* the row at address a is one of the rows at or below the pivot row and no
\* such row has a larger magnitude in the current column
LargestAtOrBelow(a) ==
    /\ \E k \in (StepRow + 1)..StepRows : StepAddrs[k] = a
    /\ \A k \in (StepRow + 1)..StepRows : ~DLt(ColumnAbs(a), ColumnAbs(StepAddrs[k]))

\* C21: at every elimination step of rowEchelon, rankByPivots, determinant
\* and inverse, the row that becomes the pivot row is one of the rows at or
\* below the current pivot row, and the magnitude of its entry in the current
\* column is at least that of every row at or below the pivot row.
C21_PartialPivoting ==
    [][TakesPivot =>
          IF pc = "rowEchelon"
          THEN LargestAtOrBelow(fr'.result.data[StepRow + 1])
          ELSE LargestAtOrBelow(fr'.data[StepRow + 1])]_vars

\* inverse of [[0, 1], [1, 0]] has swapped its rows in column 0: the second
\* given row is the pivot row
C21_Witness ==
    /\ pc = "inverse" /\ fr.col = 1
    /\ given.ints = <<<<0, 1>>, <<1, 0>>>> /\ given.scale = One
    /\ heap[fr.data[1]][1] = One
    /\ fr.data[1] > fr.data[2]

\* rowEchelon's loop is at a column whose largest entry at or below the
\* pivot row has magnitude below 1e-10
EchelonSkips ==
    /\ EchelonLooping
    /\ DLt(abs(heap[fr.result.data[EchelonMaxRow + 1]][fr.pivotCol + 1]), Tol)

\* C22: when the chosen pivot of rowEchelon has magnitude below 1e-10, the
\* step advances pivotCol by exactly one, leaves pivotRow unchanged, swaps no
\* rows and changes no entry of the working matrix.
C22_SkipLeavesMatrix ==
    [][EchelonSkips =>
          /\ fr'.pivotCol = fr.pivotCol + 1
          /\ fr'.pivotRow = fr.pivotRow
          /\ fr'.result = fr.result
          /\ heap' = heap
          /\ pc' = pc]_vars

\* rowEchelon of [[0, 1], [0, 2]] has skipped column 0
C22_Witness ==
    /\ pc = "rowEchelon" /\ fr.pivotCol = 1 /\ fr.pivotRow = 0
    /\ given.ints = <<<<0, 1>>, <<0, 2>>>> /\ given.scale = One
    /\ Content(heap, fr.result.data) = given.data

\* the main loop of rowEchelon or of rankByPivots is running
InLoop == pc \in {"rowEchelon", "rankByPivots"}
LoopRows == IF pc = "rowEchelon" THEN fr.result.rows ELSE fr.rows
LoopCols == IF pc = "rowEchelon" THEN fr.result.cols ELSE fr.cols

\* C23: rowEchelon and rankByPivots terminate on every matrix: each loop
\* iteration adds one to pivotCol and leaves pivotRow at its value or one
\* more, never negative; pivotCol, the number of iterations made, never
\* exceeds cols and pivotRow never exceeds rows; once pivotRow is rows or
\* pivotCol is cols the next step is the return; and every call made
\* eventually returns.
C23_LoopsTerminate ==
    /\ [][(InLoop /\ pc' = pc) =>
             /\ fr'.pivotCol = fr.pivotCol + 1
             /\ fr'.pivotRow \in {fr.pivotRow, fr.pivotRow + 1}]_vars
    /\ [](InLoop => /\ fr.pivotCol \in 0..LoopCols
                    /\ fr.pivotRow \in 0..LoopRows)
    /\ [][(InLoop /\ (fr.pivotRow = LoopRows \/ fr.pivotCol = LoopCols)) => pc' = "idle"]_vars
    /\ <>(Len(res) = Len(script))

\* both calls have returned on [[0, 1], [0, 2]], whose column 0 rankByPivots
\* skips at pivotRow 0
C23_Witness ==
    /\ given.ints = <<<<0, 1>>, <<0, 2>>>> /\ given.scale = One
    /\ pc = "idle" /\ Len(res) = 2
    /\ res[1].err = "" /\ res[2] = Returned(1)

\* (-1)^s for the s row swaps that brought the rows at the increasing
\* addresses of the working copy into the order addrs: a swap is a
\* transposition, so s and the number of inversions have the same parity
SwapSign(addrs) ==
    IF Cardinality({p \in (1..Len(addrs)) \X (1..Len(addrs)) :
                       p[1] < p[2] /\ addrs[p[1]] > addrs[p[2]]}) % 2 = 0
    THEN One ELSE DNeg(One)

\* 1 * p_0 * ... * p_(k-1) for the pivots p_c = entry (c, c) of the working
\* rows, multiplied in the order of the columns
RECURSIVE PivotProduct(_)
PivotProduct(k) ==
    IF k = 0 THEN One ELSE DMul(PivotProduct(k - 1), heap[fr.data[k]][k])

\* C24: when determinant does not return 0 early, its result is (-1)^s times
\* the product of the n pivot values fixed at columns 0..n-1, s the number of
\* steps that swapped rows; a step without a swap leaves the sign as it is
\* and a step with a swap negates it.
C24_SignedPivotProduct ==
    [][/\ (pc = "determinant" /\ pc' = "determinant") =>
             /\ fr'.sign = (IF fr'.data = fr.data THEN fr.sign ELSE DNeg(fr.sign))
             /\ fr'.det = DMul(fr.det, heap'[fr'.data[fr.col + 1]][fr.col + 1])
       /\ (pc = "determinant" /\ ~(fr.col < fr.n)) =>
             res' = Append(res, Returned(DMul(SwapSign(fr.data), PivotProduct(fr.n))))]_vars

\* determinant([[0, 1], [1, 0]]) has swapped once and returned -1
C24_Witness ==
    /\ given.ints = <<<<0, 1>>, <<1, 0>>>> /\ given.scale = One
    /\ Len(res) >= 1 /\ script[1].f = "determinant"
    /\ res[1] = Returned(FromInt(-1))

\* the integer a binary64 number stands for (the numbers of SpecMul are
\* integers below 2^26: the low word of the significand is 0)
IntOf(x) ==
    IF x[1] = 0 THEN 0 ELSE x[1] * (x[3] \div P2[-x[2] - 27])

RECURSIVE IntSum(_, _, _, _, _)
IntSum(a, b, i, j, n) ==
    IF n = 0 THEN 0 ELSE IntSum(a, b, i, j, n - 1) + (IntOf(a[i][n]) * IntOf(b[n][j]))

\* m is the A.rows x B.cols matrix of the sums over k of A[i][k] * B[k][j]
IsProduct(m, A, B) ==
    /\ m.rows = A.rows /\ m.cols = B.cols
    /\ Len(m.data) = A.rows
    /\ \A i \in 1..A.rows :
          /\ Len(heap[m.data[i]]) = B.cols
          /\ \A j \in 1..B.cols :
                heap[m.data[i]][j]
                    = FromInt(IntSum(Content(heap, A.data), Content(heap, B.data), i, j, A.cols))

\* C25: mulMat(A, B) fails with the dimension-mismatch error when
\* A.cols # B.rows and mulVec(A, v) fails when A.cols # v.size; otherwise
\* mulMat returns the A.rows x B.cols matrix whose entry (i, j) is the sum
\* over k of A[i][k] * B[k][j], and mulVec returns.
C25_ProductShapes ==
    \A k \in 1..Len(res) :
        /\ script[k].f = "mulMat" =>
              IF ArgM(script[k].a).cols # ArgM(script[k].b).rows
              THEN res[k].err = "DimensionMismatch"
              ELSE /\ res[k].err = ""
                   /\ IsProduct(res[k].val, ArgM(script[k].a), ArgM(script[k].b))
        /\ script[k].f = "mulVec" =>
              (res[k].err # "" <=> ArgM(script[k].a).cols # ArgM(script[k].b).size)

\* on [[1, 2], [0, 0], [0, 0]] the product X X^T is 3 x 3 with 5 at (0, 0),
\* X X fails and X^T (X X^T) is 2 x 3
C25_Witness ==
    /\ given.ints = <<<<1, 2>>, <<0, 0>>, <<0, 0>>>>
    /\ Len(res) = Len(script) /\ script[2].f = "mulMat"
    /\ res[2].err = "" /\ res[2].val.rows = 3 /\ res[2].val.cols = 3
    /\ heap[res[2].val.data[1]][1] = FromInt(5)
    /\ res[3].err = "DimensionMismatch"
    /\ res[4].err = "" /\ res[4].val.rows = 2 /\ res[4].val.cols = 3
    /\ res[6].err = "SizeMismatch" /\ res[7].err = "SizeMismatch"

\* C26: for every square matrix M, determinant(M) returns 0 if and only if
\* inverse(M) fails with Singular.
C26_ZeroIffSingular ==
    (GivenSquare /\ Len(res) >= 3) =>
        (res[1] = Returned(Zero) <=> res[3] = Thrown("Singular"))

\* the matrix object m is exactly the n x n identity
IsIdentity(m, n) ==
    /\ m.rows = n /\ m.cols = n
    /\ Content(heap, m.data) = [i \in 1..n |-> [j \in 1..n |-> IF i = j THEN One ELSE Zero]]

\* C27: for every n x n matrix M, inverse(M) succeeds if and only if
\* rank(M) = n, and then rowEchelon(M) is the n x n identity.
C27_InvertibleIffFullRank ==
    (GivenSquare /\ Len(res) >= 6) =>
        /\ res[6].err = "" <=> res[2] = Returned(given.rows)
        /\ res[6].err # "" => res[6].err = "Singular"
        /\ res[6].err = "" => (res[1].err = "" /\ IsIdentity(res[1].val, given.rows))

\* inverse([[1, 1], [0, 1]]) is returned, its rank is 2 and its echelon form
\* the identity
C27_Witness ==
    /\ given.ints = <<<<1, 1>>, <<0, 1>>>> /\ given.scale = One
    /\ Len(res) >= 6
    /\ res[6].err = "" /\ res[2] = Returned(2) /\ IsIdentity(res[1].val, 2)

\* C28: for every square matrix A on which inverse succeeds,
\* inverse(inverse(A)) also succeeds and equals A (each entry within 1e-8).
C28_InverseInvolution ==
    (Len(res) = 2 /\ res[1].err = "") =>
        /\ res[2].err = ""
        /\ res[2].val.rows = given.rows /\ res[2].val.cols = given.cols
        /\ \A i \in 1..given.rows : \A j \in 1..given.cols :
              Within(heap[res[2].val.data[i]][j], given.data[i][j], Eps8)

\* C29: on the empty 0 x 0 matrix new Matrix([]), determinant and
\* determinantRecursive both return without error and return the same value.
C29_EmptyDeterminants ==
    (given.data = <<>> /\ given.rows = 0 /\ given.cols = 0 /\ Len(res) >= 5) =>
        /\ res[4].err = "" /\ res[5].err = ""
        /\ res[4].val = res[5].val

\* C30: reshaping preserves the row-major order of the elements: for every
\* matrix M and accepted (r, c), M.reshape(r, c).toVector() has the element
\* sequence of M.toVector(); for every vector V and accepted (r, c),
\* V.toMatrix(r, c).toVector() equals V.
C30_OrderPreserved ==
    /\ (Len(res) >= 2 /\ res[1].err = "") =>
          /\ res[2].err = ""
          /\ heap[res[2].val.data] = Flat(given.data, 1)
    /\ (Len(res) >= 5 /\ res[4].err = "") =>
          /\ res[5].err = ""
          /\ res[5].val.size = res[3].val.size
          /\ heap[res[5].val.data] = heap[res[3].val.data]
====
